---- MODULE Spec2Model ----
(***************************************************************************)
(* JSMAssignment<T> (JoyShockMapper/include/JSMAssignment.hpp): a command  *)
(* bound to a JSM variable.  ParseData implements the textual grammar,     *)
(* DefaultParser / ModeshiftParser read and assign the value, and          *)
(* GetModifiedCmd derives chorded commands bound to child variables owned  *)
(* by the parent JSMSetting<T> / JSMButton.                                *)
(*                                                                         *)
(* Text is a sequence of one-character strings.  A registry holds one      *)
(* base command (bound to a setting, a button or a plain variable) and the *)
(* commands derived from it, at most MaxDerived in a run.  Variables are   *)
(* heap objects, so that two commands bound to "the same variable" is a    *)
(* fact about object identity, and a command can outlive its variable.     *)
(***************************************************************************)
EXTENDS Integers, Sequences, FiniteSets, TLC

\* ---------------------------------------------------------------- bounds
MaxLen == 1          \* longest enumerated argument text
MaxDerived == 2      \* derived commands constructed in one run
SensMax == 2         \* upper clamp of the numeric setting's filter

\* ------------------------------------------------------------------ text
Sigma == {" ", "=", "1"}
Digits == {"0", "1", "2", "3", "4", "5", "6", "7", "8", "9"}
Letters == {"a", "H", "E", "L", "P", "N", "O"}
WhiteSpace == {" ", "\t"}
\* the class [\^\+\w\s] of the capture group
CaptureClass == {"^", "+", "_"} \cup Letters \cup Digits \cup WhiteSpace

HELP == <<"H", "E", "L", "P">>
NONE == <<"N", "O", "N", "E">>

RECURSIVE StringsUpTo(_)
StringsUpTo(n) ==
    IF n = 0 THEN {<<>>}
    ELSE LET shorter == StringsUpTo(n - 1)
         IN  shorter \cup {Append(s, ch) : s \in {t \in shorter : Len(t) = n - 1}, ch \in Sigma}

\* argument texts of interest that the enumeration over Sigma does not reach
Words ==
    { HELP, NONE, <<"a">>, <<"=", " ", "2">>, <<"1", "1">>, <<"+", "1">>, <<"^", "1">>,
      <<"1", ".", "0">>, <<"1", "=">>, <<"1", " ", "a">>, <<"\t", "=", "a">>,
      <<"H", "E", "L", "P", " ">>, <<"=", " ", "H", "E", "L", "P">>,
      <<" ", "=", " ", "N", "O", "N", "E">> }

Inputs == StringsUpTo(MaxLen) \cup Words

Drop(s, n) == SubSeq(s, n + 1, Len(s))

\* regex_match(arguments, results, regex(R"(\s*=?\s*([\^\+\w\s]*))")).
\* A split <<i, e, j>> gives the lengths taken by the first \s*, by =? and by
\* the second \s*; the capture group takes the remainder.  The backtracking
\* matcher tries the greedy choices first, so the match it reports is the
\* valid split that is largest in the order (i, e, j).
\* mutant: regex_search instead of regex_match, the line need not end in the capture class
Splits_Search(s) ==
    { sp \in (0..Len(s)) \X {0, 1} \X (0..Len(s)) :
        /\ sp[1] + sp[2] + sp[3] <= Len(s)
        /\ \A k \in 1..sp[1] : s[k] \in WhiteSpace
        /\ sp[2] = 1 => s[sp[1] + 1] = "="
        /\ \A k \in (sp[1] + sp[2] + 1)..(sp[1] + sp[2] + sp[3]) : s[k] \in WhiteSpace }

Splits(s) ==
    { sp \in (0..Len(s)) \X {0, 1} \X (0..Len(s)) :
        /\ sp[1] + sp[2] + sp[3] <= Len(s)
        /\ \A k \in 1..sp[1] : s[k] \in WhiteSpace
        /\ sp[2] = 1 => s[sp[1] + 1] = "="
        /\ \A k \in (sp[1] + sp[2] + 1)..(sp[1] + sp[2] + sp[3]) : s[k] \in WhiteSpace
        /\ \A k \in (sp[1] + sp[2] + sp[3] + 1)..Len(s) : s[k] \in CaptureClass }

SplitBefore(a, b) ==
    \/ a[1] > b[1]
    \/ a[1] = b[1] /\ a[2] > b[2]
    \/ a[1] = b[1] /\ a[2] = b[2] /\ a[3] > b[3]

RegexMatch(s) ==
    LET sps == Splits(s)
    IN  IF sps = {} THEN [matched |-> FALSE, capture |-> <<>>]
        ELSE LET first == CHOOSE a \in sps : \A b \in sps \ {a} : SplitBefore(a, b)
             IN  [matched |-> TRUE, capture |-> Drop(s, first[1] + first[2] + first[3])]

\* RegexMatch over the enumerated argument texts, evaluated once
RegexTable == [s \in Inputs |-> RegexMatch(s)]
Match(s) == IF s \in Inputs THEN RegexTable[s] ELSE RegexMatch(s)

\* ---------------------------------------------------------- value codecs
DigitVal(ch) == CHOOSE d \in 0..9 : ch = <<"0", "1", "2", "3", "4", "5", "6", "7", "8", "9">>[d + 1]

RECURSIVE SkipWs(_)
SkipWs(s) == IF s # <<>> /\ Head(s) \in WhiteSpace THEN SkipWs(Tail(s)) ELSE s

RECURSIVE ReadDigits(_, _)
ReadDigits(s, acc) ==
    IF s # <<>> /\ Head(s) \in Digits THEN ReadDigits(Tail(s), 10 * acc + DigitVal(Head(s)))
    ELSE acc

\* stringstream >> int: skip white space, an optional sign, then the longest
\* run of digits; failbit when there is no digit.  What follows is not read.
ExtractInt(data) ==
    LET s1 == SkipWs(data)
        neg == s1 # <<>> /\ Head(s1) = "-"
        s2 == IF s1 # <<>> /\ Head(s1) \in {"+", "-"} THEN Tail(s1) ELSE s1
    IN  IF s2 # <<>> /\ Head(s2) \in Digits
        THEN [fail |-> FALSE, value |-> IF neg THEN 0 - ReadDigits(s2, 0) ELSE ReadDigits(s2, 0)]
        ELSE [fail |-> TRUE, value |-> 0]

RECURSIVE FormatNat(_)
FormatNat(n) ==
    IF n < 10 THEN <<<<"0", "1", "2", "3", "4", "5", "6", "7", "8", "9">>[n + 1]>>
    ELSE Append(FormatNat(n \div 10), <<"0", "1", "2", "3", "4", "5", "6", "7", "8", "9">>[(n % 10) + 1])

\* ostream << int
InsertInt(v) == IF v < 0 THEN <<"-">> \o FormatNat(0 - v) ELSE FormatNat(v)

RECURSIVE ReadWord(_)
ReadWord(s) == IF s # <<>> /\ Head(s) \notin WhiteSpace THEN <<Head(s)>> \o ReadWord(Tail(s)) ELSE <<>>

\* EventMapping: eventMapping is empty or not, representation is its text
NoMapping == [eventMapping |-> <<>>, representation |-> <<>>]
KeyNames == {<<"a">>}
\* stringstream >> EventMapping: the first word is NONE (no input) or a key
ExtractEventMapping(data) ==
    LET word == ReadWord(SkipWs(data))
    IN  IF word = NONE THEN [fail |-> FALSE, value |-> NoMapping]
        ELSE IF word \in KeyNames
             THEN [fail |-> FALSE, value |-> [eventMapping |-> <<word>>, representation |-> word]]
             ELSE [fail |-> TRUE, value |-> NoMapping]

InsertEventMapping(v) == v.representation

\* --------------------------------------------------------------- buttons
\* ButtonID enumerators by name; a token that is no enumerator does not resolve
ButtonNames == {"ERR", "NONE", "B"}
ButtonValue(name) == CASE name = "ERR" -> -2 [] name = "NONE" -> -1 [] name = "B" -> 0
ButtonID_NONE == -1
\* operator<<(ostream, ButtonID): the enumerator's name
ButtonName(btn) == CHOOSE n \in ButtonNames : ButtonValue(n) = btn
\* the _id of the one setting, as it prints
SettingID == "MIN_SENS"
ChordTokens == {"B", "NONE", "ERR", "Q"}
Operators == {",", "+", "-"}
NoButton == -100

\* magic_enum::enum_cast<ButtonID>(chord): the id, or NoButton (an empty optional)
EnumCast(chord) == IF chord \in ButtonNames THEN ButtonValue(chord) ELSE NoButton

\* ----------------------------------------------------------------- state
ParentId == 0
BaseCmd == 0
DerivedSlots == 1..MaxDerived
ChildIds == 1..(2 * MaxDerived + 1)
Families == {"JSMSetting", "JSMButton", "JSMVariable"}

VARIABLES
    vars,               \* heap of variables: id -> [class, value, filter, listeners, nextId]
    overrides,          \* JSMSetting: ButtonID -> id of the chorded variable
    markedForRemoval,   \* JSMSetting: chords marked for removal
    chordBindings,      \* JSMButton: ButtonID -> id of the chorded variable
    simPressBindings,   \* JSMButton: ButtonID -> id of the simultaneous press variable
    cmds,               \* live commands: slot -> command
    created,            \* number of derived commands constructed so far
    out,                \* lines the last call wrote to cout
    ret,                \* what the last call returned
    last                \* the last call: [op, cmd, arg, mod, chord]

allvars == <<vars, overrides, markedForRemoval, chordBindings, simPressBindings, cmds, created, out, ret, last>>

EmptyMap == [b \in {} |-> 0]
Erase(map, key) == [k \in (DOMAIN map) \ {key} |-> map[k]]
Insert(map, key, val) == [k \in (DOMAIN map) \cup {key} |-> IF k = key THEN val ELSE map[k]]

\* the part of the state a parse function works on
World == [vars |-> vars, marked |-> markedForRemoval, out |-> <<>>]

Line(fmt, name, text) == [fmt |-> fmt, name |-> name, text |-> text]
Cout(w, line) == [w EXCEPT !.out = Append(@, line)]

\* ------------------------------------------------------------- variables
\* the variable's filter: the value that a write of newValue stores
Filter(var, newValue) ==
    IF var.filter = "clamp"
    THEN (IF newValue > SensMax THEN SensMax ELSE IF newValue < 0 THEN 0 ELSE newValue)
    ELSE newValue

\* cout << _displayName << " has been set to " << newValue, and the
\* specialization for EventMapping, which prints _name
DisplayNewValue(w, cmd, newValue) ==
    IF cmd.T = "EventMapping"
    THEN (IF newValue.eventMapping = <<>>
          THEN Cout(w, Line("mapped to no input", cmd.name, <<>>))
          ELSE Cout(w, Line("mapped to", cmd.name, newValue.representation)))
    ELSE Cout(w, Line("has been set to", cmd.displayName, InsertInt(newValue)))

\* notify(value): every subscribed callback, in subscription order
RECURSIVE Notify(_, _, _)
Notify(w, listeners, value) ==
    IF listeners = <<>> THEN w
    ELSE Notify(DisplayNewValue(w, cmds[Head(listeners).cmd], value), Tail(listeners), value)

\* mutant: the listeners are notified of every write
Assign_NotifyAlways(w, id, newValue) ==
    LET stored == Filter(w.vars[id], newValue)
        w1 == [w EXCEPT !.vars[id].value = stored]
    IN  Notify(w1, w.vars[id].listeners, stored)

\* JSMVariable<T>::operator=(newValue)
Assign(w, id, newValue) ==
    LET old == w.vars[id].value
        stored == Filter(w.vars[id], newValue)
        w1 == [w EXCEPT !.vars[id].value = stored]
    IN  IF stored # old THEN Notify(w1, w.vars[id].listeners, stored) ELSE w1

\* mutant: the id handed out is the number of listeners now subscribed
AddOnChangeListener_ReuseIds(var, slot) ==
    [var EXCEPT !.listeners = Append(@, [id |-> Len(var.listeners), cmd |-> slot]),
                !.nextId = @ + 1]

\* AddOnChangeListener: the id handed out, then the counter moves on
AddOnChangeListener(var, slot) ==
    [var EXCEPT !.listeners = Append(@, [id |-> var.nextId, cmd |-> slot]),
                !.nextId = @ + 1]

RemoveOnChangeListener(var, listenerId) ==
    [var EXCEPT !.listeners = SelectSeq(@, LAMBDA l : l.id # listenerId)]

NewVariable(class, value, filter) ==
    [class |-> class, value |-> value, filter |-> filter, listeners |-> <<>>, nextId |-> 0]

\* --------------------------------------------------------------- parsing
Extract(T, data) == IF T = "EventMapping" THEN ExtractEventMapping(data) ELSE ExtractInt(data)
InsertValue(T, v) == IF T = "EventMapping" THEN InsertEventMapping(v) ELSE InsertInt(v)

\* mutant: the extracted value is assigned without looking at the fail bit
DefaultParser_AssignOnFail(w, cmd, data) ==
    IF data = <<>>
    THEN [w |-> Cout(w, Line("=", cmd.displayName, InsertValue(cmd.T, w.vars[cmd.var].value))),
          ok |-> TRUE]
    ELSE LET ex == Extract(cmd.T, data)
             oldVal == w.vars[cmd.var].value
             w1 == Assign(w, cmd.var, ex.value)
             cur == w1.vars[cmd.var].value
             w2 == IF oldVal = cur THEN DisplayNewValue(w1, cmd, cur) ELSE w1
         IN  [w |-> w2, ok |-> ~ex.fail /\ (ex.value = oldVal \/ cur # oldVal)]

\* mutant: no query mode, empty data goes to the extraction
DefaultParser_NoQuery(w, cmd, data) ==
    LET ex == Extract(cmd.T, data)
    IN  IF ~ex.fail
        THEN LET oldVal == w.vars[cmd.var].value
                 w1 == Assign(w, cmd.var, ex.value)
                 cur == w1.vars[cmd.var].value
                 w2 == IF oldVal = cur THEN DisplayNewValue(w1, cmd, cur) ELSE w1
             IN  [w |-> w2, ok |-> (ex.value = oldVal \/ cur # oldVal)]
        ELSE [w |-> w, ok |-> FALSE]

\* mutant: an assignment always reports success
DefaultParser_AlwaysOk(w, cmd, data) ==
    IF data = <<>>
    THEN [w |-> Cout(w, Line("=", cmd.displayName, InsertValue(cmd.T, w.vars[cmd.var].value))),
          ok |-> TRUE]
    ELSE LET ex == Extract(cmd.T, data)
         IN  IF ~ex.fail
             THEN LET oldVal == w.vars[cmd.var].value
                      w1 == Assign(w, cmd.var, ex.value)
                      cur == w1.vars[cmd.var].value
                      w2 == IF oldVal = cur THEN DisplayNewValue(w1, cmd, cur) ELSE w1
                  IN  [w |-> w2, ok |-> TRUE]
             ELSE [w |-> w, ok |-> FALSE]

\* mutant: no display of its own when the stored value did not change
DefaultParser_NoFallback(w, cmd, data) ==
    IF data = <<>>
    THEN [w |-> Cout(w, Line("=", cmd.displayName, InsertValue(cmd.T, w.vars[cmd.var].value))),
          ok |-> TRUE]
    ELSE LET ex == Extract(cmd.T, data)
         IN  IF ~ex.fail
             THEN LET oldVal == w.vars[cmd.var].value
                      w1 == Assign(w, cmd.var, ex.value)
                      cur == w1.vars[cmd.var].value
                  IN  [w |-> w1, ok |-> (ex.value = oldVal \/ cur # oldVal)]
             ELSE [w |-> w, ok |-> FALSE]

\* mutant: success only when the stored value changed
DefaultParser_FailOnSame(w, cmd, data) ==
    IF data = <<>>
    THEN [w |-> Cout(w, Line("=", cmd.displayName, InsertValue(cmd.T, w.vars[cmd.var].value))),
          ok |-> TRUE]
    ELSE LET ex == Extract(cmd.T, data)
         IN  IF ~ex.fail
             THEN LET oldVal == w.vars[cmd.var].value
                      w1 == Assign(w, cmd.var, ex.value)
                      cur == w1.vars[cmd.var].value
                      w2 == IF oldVal = cur THEN DisplayNewValue(w1, cmd, cur) ELSE w1
                  IN  [w |-> w2, ok |-> cur # oldVal]
             ELSE [w |-> w, ok |-> FALSE]

DefaultParser(w, cmd, data) ==
    IF data = <<>>
    THEN [w |-> Cout(w, Line("=", cmd.displayName, InsertValue(cmd.T, w.vars[cmd.var].value))),
          ok |-> TRUE]
    ELSE LET ex == Extract(cmd.T, data)
         IN  IF ~ex.fail
             THEN LET oldVal == w.vars[cmd.var].value
                      w1 == Assign(w, cmd.var, ex.value)
                      cur == w1.vars[cmd.var].value
                      w2 == IF oldVal = cur THEN DisplayNewValue(w1, cmd, cur) ELSE w1
                  IN  [w |-> w2, ok |-> (ex.value = oldVal \/ cur # oldVal)]
             ELSE [w |-> w, ok |-> FALSE]

\* mutant: after marking the chord the argument goes on to the default parser
ModeshiftParser_FallsThrough(w, modeshift, setting, cmd, argument) ==
    IF setting # NoButton /\ argument = NONE
    THEN DefaultParser(Cout([w EXCEPT !.marked = @ \cup {modeshift}],
                            Line("Modeshift has been removed", ButtonName(modeshift) \o "," \o SettingID, <<>>)),
                       cmd, argument)
    ELSE DefaultParser(w, cmd, argument)

ModeshiftParser(w, modeshift, setting, cmd, argument) ==
    IF setting # NoButton /\ argument = NONE
    THEN [w |-> Cout([w EXCEPT !.marked = @ \cup {modeshift}],
                      Line("Modeshift has been removed", ButtonName(modeshift) \o "," \o SettingID, <<>>)),
          ok |-> TRUE]
    ELSE DefaultParser(w, cmd, argument)

\* _parse(this, data)
CallParser(w, cmd, data) ==
    IF cmd.parse.fn = "ModeshiftParser"
    THEN ModeshiftParser(w, cmd.parse.modeshift, cmd.parse.setting, cmd, data)
    ELSE DefaultParser(w, cmd, data)

\* mutant: HELP is no token of its own and goes through the grammar
ParseData_NoHelpToken(w, cmd, arguments) ==
    LET results == Match(arguments)
    IN  IF results.matched
        THEN LET r == CallParser(w, cmd, results.capture)
             IN  [w |-> IF ~r.ok THEN Cout(r.w, Line("help", cmd.help, <<>>)) ELSE r.w,
                  ret |-> TRUE]
        ELSE [w |-> w, ret |-> FALSE]

ParseData(w, cmd, arguments) ==
    IF arguments = HELP
    THEN [w |-> Cout(w, Line("help", cmd.help, <<>>)), ret |-> FALSE]
    ELSE LET results == Match(arguments)
         IN  IF results.matched
             THEN LET r == CallParser(w, cmd, results.capture)
                  IN  [w |-> IF ~r.ok THEN Cout(r.w, Line("help", cmd.help, <<>>)) ELSE r.w,
                       ret |-> TRUE]
             ELSE [w |-> w, ret |-> FALSE]

Call(op, slot, arg, mod, chord) == [op |-> op, cmd |-> slot, arg |-> arg, mod |-> mod, chord |-> chord]

\* the dispatcher hands a line to a command whose variable is alive (the
\* lifetime precondition stated with _var)
Process(slot, arguments) ==
    /\ slot \in DOMAIN cmds
    /\ cmds[slot].var \in DOMAIN vars
    /\ LET r == ParseData(World, cmds[slot], arguments)
       IN  /\ vars' = r.w.vars
           /\ markedForRemoval' = r.w.marked
           /\ out' = r.w.out
           /\ ret' = r.ret
    /\ last' = Call("process", slot, arguments, "", "")
    /\ UNCHANGED <<overrides, chordBindings, simPressBindings, cmds, created>>


\* ------------------------------------------------------------ derivation
\* an id for a new variable: not allocated, and not the target of any
\* reference a live command still holds
Referenced == {cmds[c].var : c \in DOMAIN cmds} \cup {cmds[c].task.var : c \in DOMAIN cmds}
FreshId == CHOOSE id \in ChildIds \ (DOMAIN vars \cup Referenced) :
              \A other \in ChildIds \ (DOMAIN vars \cup Referenced) : id <= other
\* the slot of the next derived command; a slot is not used twice
FreeSlot == created + 1

\* AtChord / AtSimPress: the child variable at btn, created when there is none
AtChord(map, vs, btn, newVar) ==
    IF btn \in DOMAIN map
    THEN [map |-> map, vars |-> vs, id |-> map[btn]]
    ELSE [map |-> Insert(map, btn, FreshId),
          vars |-> Insert(vs, FreshId, newVar),
          id |-> FreshId]

\* mutant: the constructor initializes the variable it is bound to
JSMAssignment_ResetsVar(name, T, id, var, slot, help, parse, task) ==
    [cmd |-> [name |-> name, displayName |-> name, help |-> help, T |-> T, var |-> id,
              parse |-> parse, task |-> task, listenerId |-> var.nextId],
     var |-> AddOnChangeListener([var EXCEPT !.value = IF T = "EventMapping" THEN NoMapping ELSE 0],
                                 slot)]

\* JSMAssignment(name, var), then SetHelp, SetParser and SetTaskOnDestruction
JSMAssignment(name, T, id, var, slot, help, parse, task) ==
    [cmd |-> [name |-> name, displayName |-> name, help |-> help, T |-> T, var |-> id,
              parse |-> parse, task |-> task, listenerId |-> var.nextId],
     var |-> AddOnChangeListener(var, slot)]

\* mutant: the derived command is bound to the command's own variable
ModifiedCmd_BoundToParent(cmd, op, chord, case, childId, childVar, slot) ==
    JSMAssignment(chord \o op \o cmd.displayName, case.T, cmd.var, vars[cmd.var], slot, cmd.help,
                  case.parse, [fn |-> case.task, btn |-> case.btn, var |-> childId])

\* new JSMAssignment<T>(name, child), SetHelp(_help), SetParser, SetTaskOnDestruction
ModifiedCmd(cmd, op, chord, case, childId, childVar, slot) ==
    JSMAssignment(chord \o op \o cmd.displayName, case.T, childId, childVar, slot, cmd.help,
                  case.parse, [fn |-> case.task, btn |-> case.btn, var |-> childId])

NoResult == [made |-> FALSE]

\* mutant: '+' takes its child from the chord map
ModifiedCase_SimPressInChordMap(cmd, op, chord) ==
    LET btn == EnumCast(chord)
        class == vars[cmd.var].class
    IN  IF btn # NoButton /\ btn > ButtonID_NONE
        THEN IF op = "," /\ class = "JSMSetting"
             THEN [made |-> TRUE, map |-> "overrides", btn |-> btn, T |-> cmd.T,
                   parse |-> [fn |-> "ModeshiftParser", modeshift |-> btn, setting |-> cmd.var],
                   task |-> "ProcessModeshiftRemoval"]
             ELSE IF op = "," /\ class = "JSMButton"
                  THEN [made |-> TRUE, map |-> "chordBindings", btn |-> btn, T |-> cmd.T,
                        parse |-> cmd.parse, task |-> "ProcessChordRemoval"]
                  ELSE IF op = "+" /\ class = "JSMButton" /\ btn >= 0
                       THEN [made |-> TRUE, map |-> "chordBindings", btn |-> btn,
                             T |-> "EventMapping",
                             parse |-> cmd.parse, task |-> "ProcessSimPressRemoval"]
                       ELSE NoResult
        ELSE NoResult

\* mutant: the chord is compared with >= NONE
ModifiedCase_NoneAccepted(cmd, op, chord) ==
    LET btn == EnumCast(chord)
        class == vars[cmd.var].class
    IN  IF btn # NoButton /\ btn >= ButtonID_NONE
        THEN IF op = "," /\ class = "JSMSetting"
             THEN [made |-> TRUE, map |-> "overrides", btn |-> btn, T |-> cmd.T,
                   parse |-> [fn |-> "ModeshiftParser", modeshift |-> btn, setting |-> cmd.var],
                   task |-> "ProcessModeshiftRemoval"]
             ELSE IF op = "," /\ class = "JSMButton" /\ btn > ButtonID_NONE
                  THEN [made |-> TRUE, map |-> "chordBindings", btn |-> btn, T |-> cmd.T,
                        parse |-> cmd.parse, task |-> "ProcessChordRemoval"]
                  ELSE IF op = "+" /\ class = "JSMButton" /\ btn >= 0
                       THEN [made |-> TRUE, map |-> "simPressBindings", btn |-> btn,
                             T |-> "EventMapping",
                             parse |-> cmd.parse, task |-> "ProcessSimPressRemoval"]
                       ELSE NoResult
        ELSE NoResult

\* mutant: '+' on a setting makes a modeshift as ',' does
ModifiedCase_PlusOnSetting(cmd, op, chord) ==
    LET btn == EnumCast(chord)
        class == vars[cmd.var].class
    IN  IF btn # NoButton /\ btn > ButtonID_NONE
        THEN IF op \in {",", "+"} /\ class = "JSMSetting"
             THEN [made |-> TRUE, map |-> "overrides", btn |-> btn, T |-> cmd.T,
                   parse |-> [fn |-> "ModeshiftParser", modeshift |-> btn, setting |-> cmd.var],
                   task |-> "ProcessModeshiftRemoval"]
             ELSE IF op = "," /\ class = "JSMButton" /\ btn > ButtonID_NONE
                  THEN [made |-> TRUE, map |-> "chordBindings", btn |-> btn, T |-> cmd.T,
                        parse |-> cmd.parse, task |-> "ProcessChordRemoval"]
                  ELSE IF op = "+" /\ class = "JSMButton" /\ btn >= 0
                       THEN [made |-> TRUE, map |-> "simPressBindings", btn |-> btn,
                             T |-> "EventMapping",
                             parse |-> cmd.parse, task |-> "ProcessSimPressRemoval"]
                       ELSE NoResult
        ELSE NoResult

\* the case of GetModifiedCmd that applies: which map the child comes from,
\* and the parser and the teardown task of the derived command
ModifiedCase(cmd, op, chord) ==
    LET btn == EnumCast(chord)
        class == vars[cmd.var].class
    IN  IF btn # NoButton /\ btn > ButtonID_NONE
        THEN IF op = ","
             THEN IF class = "JSMSetting"
                  THEN [made |-> TRUE, map |-> "overrides", btn |-> btn, T |-> cmd.T,
                        parse |-> [fn |-> "ModeshiftParser", modeshift |-> btn, setting |-> cmd.var],
                        task |-> "ProcessModeshiftRemoval"]
                  ELSE IF class = "JSMButton" /\ btn > ButtonID_NONE
                       THEN [made |-> TRUE, map |-> "chordBindings", btn |-> btn, T |-> cmd.T,
                             parse |-> cmd.parse, task |-> "ProcessChordRemoval"]
                       ELSE NoResult
             ELSE IF op = "+"
                  THEN IF class = "JSMButton" /\ btn >= 0
                       THEN [made |-> TRUE, map |-> "simPressBindings", btn |-> btn,
                             T |-> "EventMapping",
                             parse |-> cmd.parse, task |-> "ProcessSimPressRemoval"]
                       ELSE NoResult
                  ELSE NoResult
        ELSE NoResult

MapOf(name) ==
    CASE name = "overrides" -> overrides
      [] name = "chordBindings" -> chordBindings
      [] name = "simPressBindings" -> simPressBindings

\* the child variable a map creates: a setting's chorded variable is a copy
\* of the setting, a button's starts with no mapping
ChildVariable(map, parent) ==
    IF map = "overrides"
    THEN NewVariable("JSMVariable", parent.value, parent.filter)
    ELSE NewVariable("JSMVariable", NoMapping, "none")

GetModifiedCmd(slot, op, chord) ==
    /\ slot \in DOMAIN cmds
    /\ cmds[slot].var \in DOMAIN vars
    /\ LET cmd == cmds[slot]
           case == ModifiedCase(cmd, op, chord)
       IN  IF case.made
           THEN /\ created < MaxDerived
                /\ LET child == AtChord(MapOf(case.map), vars, case.btn,
                                        ChildVariable(case.map, vars[cmd.var]))
                       made == ModifiedCmd(cmd, op, chord, case, child.id, child.vars[child.id], FreeSlot)
                   IN  /\ vars' = [child.vars EXCEPT ![made.cmd.var] = made.var]
                       /\ cmds' = Insert(cmds, FreeSlot, made.cmd)
                       /\ overrides' = IF case.map = "overrides" THEN child.map ELSE overrides
                       /\ chordBindings' = IF case.map = "chordBindings" THEN child.map ELSE chordBindings
                       /\ simPressBindings' = IF case.map = "simPressBindings" THEN child.map
                                              ELSE simPressBindings
                       /\ created' = created + 1
                       /\ ret' = TRUE
           ELSE \* JSMCommand::GetModifiedCmd: no command
                /\ UNCHANGED <<vars, cmds, created, overrides, chordBindings, simPressBindings>>
                /\ ret' = FALSE
    /\ out' = <<>>
    /\ last' = Call("derive", slot, <<>>, op, chord)
    /\ UNCHANGED markedForRemoval

\* ----------------------------------------------------------- destruction
\* JSMSetting::ProcessModeshiftRemoval(chord): second phase of the removal
ProcessModeshiftRemoval(vs, map, marked, chord) ==
    IF chord \in marked
    THEN [vars |-> IF chord \in DOMAIN map THEN Erase(vs, map[chord]) ELSE vs,
          map |-> Erase(map, chord),
          marked |-> marked \ {chord}]
    ELSE [vars |-> vs, map |-> map, marked |-> marked]

\* JSMButton::ProcessChordRemoval / ProcessSimPressRemoval(chord, value): the
\* binding goes away when it maps to no input
ProcessChordRemoval(vs, map, chord, isEmpty) ==
    IF isEmpty /\ chord \in DOMAIN map
    THEN [vars |-> Erase(vs, map[chord]), map |-> Erase(map, chord)]
    ELSE [vars |-> vs, map |-> map]

\* ~JSMAssignment then ~JSMCommand: the listener is removed, then the
\* teardown task runs.  A task that reads a variable that is gone reads
\* anything.
Destroy(slot) ==
    /\ slot \in DerivedSlots \cap DOMAIN cmds
    /\ LET cmd == cmds[slot]
           vs == IF cmd.var \in DOMAIN vars
                 THEN [vars EXCEPT ![cmd.var] = RemoveOnChangeListener(@, cmd.listenerId)]
                 ELSE vars
       IN  \/ /\ cmd.task.fn = "ProcessModeshiftRemoval"
              /\ LET r == ProcessModeshiftRemoval(vs, overrides, markedForRemoval, cmd.task.btn)
                 IN  /\ vars' = r.vars
                     /\ overrides' = r.map
                     /\ markedForRemoval' = r.marked
              /\ UNCHANGED <<chordBindings, simPressBindings>>
           \/ /\ cmd.task.fn \in {"ProcessChordRemoval", "ProcessSimPressRemoval"}
              /\ \E isEmpty \in BOOLEAN :
                    /\ cmd.task.var \in DOMAIN vs => isEmpty = (vs[cmd.task.var].value.eventMapping = <<>>)
                    /\ LET isChord == cmd.task.fn = "ProcessChordRemoval"
                           r == ProcessChordRemoval(vs, IF isChord THEN chordBindings ELSE simPressBindings,
                                                    cmd.task.btn, isEmpty)
                       IN  /\ vars' = r.vars
                           /\ chordBindings' = IF isChord THEN r.map ELSE chordBindings
                           /\ simPressBindings' = IF isChord THEN simPressBindings ELSE r.map
              /\ UNCHANGED <<overrides, markedForRemoval>>
    /\ cmds' = Erase(cmds, slot)
    /\ UNCHANGED created
    /\ out' = <<>>
    /\ ret' = FALSE
    /\ last' = Call("destroy", slot, <<>>, "", "")

BaseCommand(family) ==
    [name |-> IF family = "JSMButton" THEN "A" ELSE "SENS",
     displayName |-> IF family = "JSMButton" THEN "A" ELSE "MIN_SENS",
     help |-> "help",
     T |-> IF family = "JSMButton" THEN "EventMapping" ELSE "int",
     var |-> ParentId,
     parse |-> [fn |-> "DefaultParser", modeshift |-> NoButton, setting |-> NoButton],
     task |-> [fn |-> "none", btn |-> NoButton, var |-> ParentId],
     listenerId |-> 0]

Init ==
    \E family \in Families :
        /\ vars = [id \in {ParentId} |->
                     AddOnChangeListener(
                        NewVariable(family,
                                    IF family = "JSMButton" THEN NoMapping ELSE 1,
                                    IF family = "JSMSetting" THEN "clamp" ELSE "none"),
                        BaseCmd)]
        /\ cmds = [slot \in {BaseCmd} |-> BaseCommand(family)]
        /\ created = 0
        /\ overrides = EmptyMap
        /\ markedForRemoval = {}
        /\ chordBindings = EmptyMap
        /\ simPressBindings = EmptyMap
        /\ out = <<>>
        /\ ret = FALSE
        /\ last = Call("init", BaseCmd, <<>>, "", "")

\* ---------------------------------------------------------------- claims
HelpLine(cmd) == Line("help", cmd.help, <<>>)
IsProcess(call) == call.op = "process"
\* the line matched the grammar (and is not the HELP token)
Matched(arg) == arg # HELP /\ Match(arg).matched
Capture(arg) == Match(arg).capture
\* the capture goes to ModeshiftParser's removal branch
IsRemoval(cmd, arg) == cmd.parse.fn = "ModeshiftParser" /\ Capture(arg) = NONE
Unconvertible(cmd, arg) == Capture(arg) # <<>> /\ Extract(cmd.T, Capture(arg)).fail
Convertible(cmd, arg) == Capture(arg) # <<>> /\ ~Extract(cmd.T, Capture(arg)).fail
DisplayFormats == {"has been set to", "mapped to", "mapped to no input"}
DisplayLines(lines) == Len(SelectSeq(lines, LAMBDA l : l.fmt \in DisplayFormats))
HelpLines(lines) == Len(SelectSeq(lines, LAMBDA l : l.fmt = "help"))
Untouched == /\ vars' = vars
             /\ markedForRemoval' = markedForRemoval
             /\ overrides' = overrides
             /\ chordBindings' = chordBindings
             /\ simPressBindings' = simPressBindings
             /\ cmds' = cmds

\* C1: process("HELP") prints the help text and nothing else, returns false,
\* does not run the parse function and leaves every variable as it was, for
\* base and derived commands alike.
C1_HelpReturnsFalse ==
    [][(IsProcess(last') /\ last'.arg = HELP)
         => /\ out' = <<HelpLine(cmds[last'.cmd])>>
            /\ ret' = FALSE
            /\ Untouched]_allvars

\* C1 witness: a modeshift command has processed HELP
C1_Witness ==
    /\ IsProcess(last) /\ last.arg = HELP /\ last.cmd # BaseCmd
    /\ cmds[last.cmd].parse.fn = "ModeshiftParser"
    /\ out = <<HelpLine(cmds[last.cmd])>> /\ ret = FALSE

\* C2 as stated: a matching line whose non-empty capture does not convert to
\* T prints the help text, returns true, displays no change and leaves the
\* variable as it was.
C2_Original ==
    [][(IsProcess(last') /\ Matched(last'.arg) /\ Unconvertible(cmds[last'.cmd], last'.arg))
         => /\ out' = <<HelpLine(cmds[last'.cmd])>>
            /\ ret' = TRUE
            /\ Untouched]_allvars

\* C2 amended: the same, for every capture that reaches the default parser,
\* that is every capture but NONE on a modeshift command; NONE on a modeshift
\* command prints the removal confirmation and no help text.
C2_ParseFailureShowsHelp ==
    [][(IsProcess(last') /\ Matched(last'.arg) /\ Unconvertible(cmds[last'.cmd], last'.arg))
         => IF IsRemoval(cmds[last'.cmd], last'.arg)
            THEN /\ out' = <<Line("Modeshift has been removed", "B,MIN_SENS", <<>>)>>
                 /\ ret' = TRUE
                 /\ vars' = vars
            ELSE /\ out' = <<HelpLine(cmds[last'.cmd])>>
                 /\ ret' = TRUE
                 /\ Untouched]_allvars

\* C2 witness: a derived command got a capture that is no value of T
C2_Witness ==
    /\ IsProcess(last) /\ last.cmd # BaseCmd /\ Matched(last.arg)
    /\ Unconvertible(cmds[last.cmd], last.arg) /\ ~IsRemoval(cmds[last.cmd], last.arg)
    /\ out = <<HelpLine(cmds[last.cmd])>> /\ ret = TRUE

\* the shape [ws]['='][ws][capture], stated on the text itself
InGrammar(arg) ==
    \E i \in 0..Len(arg) :
        \* a prefix of white space with at most one '=' in it, then the capture
        /\ \A k \in 1..i : arg[k] \in WhiteSpace \cup {"="}
        /\ Cardinality({k \in 1..i : arg[k] = "="}) <= 1
        /\ \A k \in (i + 1)..Len(arg) : arg[k] \in CaptureClass

\* C3: a line that is not HELP and does not match the grammar returns false,
\* prints nothing, runs no parse function and changes nothing.
C3_ShapeMismatchReturnsFalse ==
    [][(IsProcess(last') /\ last'.arg # HELP /\ ~InGrammar(last'.arg))
         => /\ ret' = FALSE
            /\ out' = <<>>
            /\ Untouched]_allvars

\* C3 witness: a command got a line with a character outside the grammar
C3_Witness ==
    /\ IsProcess(last) /\ last.arg # HELP /\ ~InGrammar(last.arg)
    /\ out = <<>> /\ ret = FALSE

\* C4: with an empty capture process prints the one line
\* "<displayName> = <value>", returns true and changes nothing.
C4_QueryPrintsValue ==
    [][(IsProcess(last') /\ Matched(last'.arg) /\ Capture(last'.arg) = <<>>)
         => LET cmd == cmds[last'.cmd]
            IN  /\ out' = <<Line("=", cmd.displayName, InsertValue(cmd.T, vars[cmd.var].value))>>
                /\ ret' = TRUE
                /\ Untouched]_allvars

\* C4 witness: a query on a setting whose value an assignment has changed
C4_Witness ==
    /\ IsProcess(last) /\ Matched(last.arg) /\ Capture(last.arg) = <<>> /\ last.arg # <<>>
    /\ cmds[last.cmd].T = "int" /\ vars[cmds[last.cmd].var].value = 2
    /\ out = <<Line("=", cmds[last.cmd].displayName, <<"2">>)>> /\ ret = TRUE

\* a step in which a command assigns a value it parsed from the capture
AssignStep ==
    /\ IsProcess(last') /\ Matched(last'.arg)
    /\ Convertible(cmds[last'.cmd], last'.arg)
    /\ ~IsRemoval(cmds[last'.cmd], last'.arg)
Requested(cmd, arg) == Extract(cmd.T, Capture(arg)).value

\* C5 as stated: a call whose capture parses into T emits exactly one
\* value-changed display line.
C5_ExactlyOneDisplayLine ==
    [][AssignStep => DisplayLines(out') = 1]_allvars

\* C6 as stated: the assignment reports success (no help text) under (a) or
\* (b), and also when the filter collapses a different requested value back
\* to the old one.
C6_Original ==
    [][AssignStep =>
         LET cmd == cmds[last'.cmd]
             requested == Requested(cmd, last'.arg)
             oldVal == vars[cmd.var].value
             cur == vars'[cmd.var].value
         IN  /\ (requested = oldVal \/ cur # oldVal) => HelpLines(out') = 0
             /\ (requested # oldVal /\ cur = oldVal) => HelpLines(out') = 0]_allvars

\* C6 amended: the parse function reports success exactly under (a) or (b);
\* a different requested value that the filter collapses back to the old
\* one is reported as a failure, by the help text, and process returns true
\* in both cases.
C6_SuccessRule ==
    [][AssignStep =>
         LET cmd == cmds[last'.cmd]
             requested == Requested(cmd, last'.arg)
             oldVal == vars[cmd.var].value
             cur == vars'[cmd.var].value
         IN  /\ ret' = TRUE
             /\ (HelpLines(out') = 0) <=> (requested = oldVal \/ cur # oldVal)
             /\ (requested # oldVal /\ cur = oldVal)
                  => out' = <<DisplayNewValue([out |-> <<>>], cmd, cur).out[1], HelpLine(cmd)>>]_allvars

\* C6 witness: the filter has collapsed a different requested value to the
\* stored one, and the call printed the display line and the help text
C6_Witness ==
    /\ IsProcess(last) /\ Matched(last.arg) /\ Convertible(cmds[last.cmd], last.arg)
    /\ Requested(cmds[last.cmd], last.arg) # vars[cmds[last.cmd].var].value
    /\ DisplayLines(out) = 1 /\ HelpLines(out) = 1 /\ ret = TRUE

\* the last call was an assignment that succeeded
AssignedOk ==
    /\ IsProcess(last) /\ Matched(last.arg)
    /\ Convertible(cmds[last.cmd], last.arg) /\ ~IsRemoval(cmds[last.cmd], last.arg)
    /\ ret = TRUE /\ HelpLines(out) = 0

\* C7: after process(text) has succeeded in assigning, the same call made
\* again returns true, leaves the value and every listener registry as they
\* are, and prints exactly one display line, the command's own.
C7_Idempotent ==
    AssignedOk =>
        LET cmd == cmds[last.cmd]
            again == ParseData(World, cmd, last.arg)
        IN  /\ again.ret = TRUE
            /\ again.w.vars = vars
            /\ again.w.marked = markedForRemoval
            /\ DisplayLines(again.w.out) = 1
            /\ again.w.out[1] = DisplayNewValue([out |-> <<>>], cmd, vars[cmd.var].value).out[1]

\* C7 witness: an assignment that the filter clamped has succeeded
C7_Witness ==
    /\ AssignedOk
    /\ Requested(cmds[last.cmd], last.arg) # vars[cmds[last.cmd].var].value
    /\ DisplayLines(out) = 1

\* live modeshift commands for a chord whose variable is alive
ModeshiftCmds(btn) ==
    {c \in DOMAIN cmds : /\ cmds[c].task.fn = "ProcessModeshiftRemoval"
                         /\ cmds[c].task.btn = btn
                         /\ cmds[c].var \in DOMAIN vars}

\* C8: the commands derived with ',' for one chord of a setting are bound to
\* one child variable, the one entry of the override map for the chord, and
\* what one of them assigned is what the other reads.
C8_SameChild ==
    /\ \A b1 \in DOMAIN overrides, b2 \in DOMAIN overrides : overrides[b1] = overrides[b2] => b1 = b2
    /\ \A btn \in {ButtonValue(n) : n \in ButtonNames} :
         \A c1 \in ModeshiftCmds(btn), c2 \in ModeshiftCmds(btn) :
            /\ btn \in DOMAIN overrides
            /\ cmds[c1].var = overrides[btn]
            /\ cmds[c2].var = cmds[c1].var
            /\ ParseData(World, cmds[c2], <<>>).w.out
                 = <<Line("=", cmds[c2].displayName, InsertInt(vars[cmds[c1].var].value))>>

\* C8 witness: two commands derived for the same chord, and an assignment
\* through one of them that changed the child
C8_Witness ==
    /\ \E c1 \in ModeshiftCmds(0), c2 \in ModeshiftCmds(0) : c1 # c2 /\ last.cmd = c1
    /\ AssignedOk
    /\ vars[cmds[last.cmd].var].value = 2 /\ vars[ParentId].value = 1

\* C9 as stated: once a modeshift command has processed NONE the override is
\* marked and stays in the map until that command's teardown task runs, and
\* the teardown task of a command whose chord is marked removes the entry.
C9_TwoPhaseRemoval ==
    [][/\ (/\ IsProcess(last) /\ Matched(last.arg) /\ IsRemoval(cmds[last.cmd], last.arg)
           /\ ~(last'.op = "destroy" /\ last'.cmd = last.cmd))
          => /\ cmds[last.cmd].task.btn \in markedForRemoval
             /\ cmds[last.cmd].task.btn \in DOMAIN overrides
             /\ cmds[last.cmd].task.btn \in DOMAIN overrides'
             /\ cmds[last.cmd].var \in DOMAIN vars'
       /\ (/\ last'.op = "destroy"
           /\ cmds[last'.cmd].task.fn = "ProcessModeshiftRemoval"
           /\ cmds[last'.cmd].task.btn \in markedForRemoval)
          => cmds[last'.cmd].task.btn \notin DOMAIN overrides']_allvars

\* the derived commands of a button are named and bound as C10 says
C10_Bound ==
    /\ \A c \in DOMAIN cmds :
         LET cmd == cmds[c]
         IN  /\ cmd.task.fn = "ProcessSimPressRemoval"
                  => /\ cmd.name = ButtonName(cmd.task.btn) \o "+" \o cmds[BaseCmd].name
                     /\ cmd.var \in DOMAIN vars
                          => /\ cmd.task.btn \in DOMAIN simPressBindings
                             /\ simPressBindings[cmd.task.btn] = cmd.var
             /\ cmd.task.fn = "ProcessChordRemoval"
                  => /\ cmd.name = ButtonName(cmd.task.btn) \o "," \o cmds[BaseCmd].name
                     /\ cmd.var \in DOMAIN vars
                          => /\ cmd.task.btn \in DOMAIN chordBindings
                             /\ chordBindings[cmd.task.btn] = cmd.var
    /\ \A b1 \in DOMAIN chordBindings, b2 \in DOMAIN simPressBindings :
         /\ chordBindings[b1] # simPressBindings[b2]
         /\ chordBindings[b1] # ParentId
         /\ simPressBindings[b2] # ParentId

\* C10: a button's '+' command is named "B+A" and bound to the simultaneous
\* press slot for B, its ',' command is named "B,A" and bound to the chord
\* slot for B, the slots are different variables, and a call of either
\* command changes no variable but its own.
C10_ButtonSlots ==
    [][/\ C10_Bound'
       /\ (IsProcess(last') /\ cmds[last'.cmd].task.fn \in {"ProcessChordRemoval", "ProcessSimPressRemoval"})
            => /\ \A id \in (DOMAIN vars) \ {cmds[last'.cmd].var} : vars'[id] = vars[id]
               /\ chordBindings' = chordBindings
               /\ simPressBindings' = simPressBindings]_allvars

\* C10 witness: an assignment through B+A while B,A is alive too
C10_Witness ==
    /\ AssignedOk /\ cmds[last.cmd].name = "B+A"
    /\ 0 \in DOMAIN chordBindings /\ 0 \in DOMAIN simPressBindings
    /\ \E c \in DOMAIN cmds : cmds[c].name = "B,A" /\ cmds[c].var = chordBindings[0]
    /\ vars[simPressBindings[0]].value.representation = <<"a">>
    /\ vars[chordBindings[0]].value = NoMapping
    /\ vars[ParentId].value = NoMapping
    /\ out = <<Line("mapped to", "B+A", <<"a">>)>>

\* a call of GetModifiedCmd
IsDerive(call) == call.op = "derive"
\* the chord names a button, and one after NONE
ValidChord(chord) == chord \in ButtonNames /\ ButtonValue(chord) > ButtonID_NONE
\* the pairs of variable kind and operator that make a derived command
Supported(class, op) ==
    \/ op = "," /\ class \in {"JSMSetting", "JSMButton"}
    \/ op = "+" /\ class = "JSMButton"
NothingDerived ==
    /\ ret' = FALSE
    /\ out' = <<>>
    /\ created' = created
    /\ Untouched

\* C11: with a chord that names no button, or a button not after NONE,
\* GetModifiedCmd makes no derived command and no entry in any map, for every
\* operator and every kind of variable.
C11_InvalidChordNoCommand ==
    [][(IsDerive(last') /\ ~ValidChord(last'.chord)) => NothingDerived]_allvars

\* C11 witness: ',' with the chord NONE on a setting made nothing, and so did
\* an unknown chord on a command that was derived before
C11_Witness ==
    /\ IsDerive(last) /\ ret = FALSE /\ vars[ParentId].class = "JSMSetting"
    /\ \/ last.chord = "NONE" /\ last.mod = "," /\ last.cmd = BaseCmd /\ overrides = EmptyMap
       \/ last.chord = "Q" /\ last.cmd # BaseCmd /\ DOMAIN overrides = {0}

\* C12: with a valid chord every pair of operator and variable kind other
\* than ',' on a setting, ',' on a button and '+' on a button makes no derived
\* command, no slot and no change to any variable.
C12_UnsupportedPairNoCommand ==
    [][(/\ IsDerive(last') /\ ValidChord(last'.chord)
        /\ ~Supported(vars[cmds[last'.cmd].var].class, last'.mod))
         => NothingDerived]_allvars

\* C12 witness: '+' on a setting that has a modeshift for the chord already
C12_Witness ==
    /\ IsDerive(last) /\ last.mod = "+" /\ last.chord = "B" /\ last.cmd = BaseCmd
    /\ vars[ParentId].class = "JSMSetting" /\ ret = FALSE
    /\ DOMAIN overrides = {0} /\ DOMAIN cmds = {BaseCmd, 1}

\* the display lines of a call, in the order they were printed
DisplayPart(lines) == SelectSeq(lines, LAMBDA l : l.fmt \in DisplayFormats)
\* what the display listeners of a variable print when they are given value
ListenerLines(listeners, value) ==
    [i \in 1..Len(listeners) |-> DisplayNewValue([out |-> <<>>], cmds[listeners[i].cmd], value).out[1]]

\* C13: a write through the variable stores the normalized value and calls
\* the listeners exactly when the stored value differs from the one before,
\* each with the stored value; a write that leaves the stored value as it
\* was calls no listener (the one display line is the parser's own).
C13_SetNotifiesOnChange ==
    [][AssignStep =>
         LET cmd == cmds[last'.cmd]
             var == vars[cmd.var]
             stored == vars'[cmd.var].value
         IN  /\ stored = Filter(var, Requested(cmd, last'.arg))
             /\ \A id \in (DOMAIN vars) \ {cmd.var} : vars'[id] = vars[id]
             /\ vars'[cmd.var] = [var EXCEPT !.value = stored]
             /\ DisplayPart(out') = IF stored # var.value
                                    THEN ListenerLines(var.listeners, stored)
                                    ELSE <<DisplayNewValue([out |-> <<>>], cmd, stored).out[1]>>]_allvars

\* C13 witness: a write that the filter clamped to a new value has called the
\* two listeners of a child variable with the stored value
C13_Witness ==
    /\ AssignedOk /\ last.cmd # BaseCmd
    /\ cmds[last.cmd].T = "int"
    /\ Len(vars[cmds[last.cmd].var].listeners) = 2
    /\ Requested(cmds[last.cmd], last.arg) > SensMax
    /\ vars[cmds[last.cmd].var].value = SensMax
    /\ out = ListenerLines(vars[cmds[last.cmd].var].listeners, SensMax)

\* the ids subscribed on a notifier
ListenerIds(var) == {var.listeners[i].id : i \in 1..Len(var.listeners)}
\* the ids a caller can pass to unsubscribe
AnyListenerId == 0..(MaxDerived + 1)

\* C14: on one notifier every subscribe hands out an id greater than every
\* id handed out before, also after an unsubscribe, so the subscribed ids
\* are distinct and in subscription order; unsubscribe of an id that is not
\* subscribed leaves the registry as it is.
C14_ListenerIds ==
    [][\A id \in DOMAIN vars' :
         LET after == vars'[id]
         IN  /\ \A i \in 1..Len(after.listeners), j \in 1..Len(after.listeners) :
                   i < j => after.listeners[i].id < after.listeners[j].id
             /\ \A k \in ListenerIds(after) : k < after.nextId
             /\ \A k \in AnyListenerId \ ListenerIds(after) :
                   RemoveOnChangeListener(after, k) = after
             /\ id \in DOMAIN vars
                   => /\ after.nextId >= vars[id].nextId
                      /\ \A k \in ListenerIds(after) \ ListenerIds(vars[id]) :
                            k >= vars[id].nextId]_allvars

\* C14 witness: a child variable whose first listener was unsubscribed and
\* whose second listener got the next id, not the free one
C14_Witness ==
    /\ 0 \in DOMAIN overrides /\ DOMAIN cmds = {BaseCmd, 2}
    /\ cmds[2].var = overrides[0]
    /\ ListenerIds(vars[overrides[0]]) = {1}
    /\ cmds[2].listenerId = 1

\* C15: the parser of a ','-derived command of a setting, given exactly
\* NONE, marks the chord for removal, prints the removal confirmation and
\* nothing else, and leaves every variable as it was; given any other
\* capture it does what the default parser does and marks nothing.
C15_ModeshiftParser ==
    [][(/\ IsProcess(last') /\ Matched(last'.arg)
        /\ cmds[last'.cmd].parse.fn = "ModeshiftParser")
         => LET cmd == cmds[last'.cmd]
                default == DefaultParser(World, cmd, Capture(last'.arg))
            IN  IF Capture(last'.arg) = NONE
                THEN /\ markedForRemoval' = markedForRemoval \cup {cmd.task.btn}
                     /\ out' = <<Line("Modeshift has been removed", "B,MIN_SENS", <<>>)>>
                     /\ ret' = TRUE
                     /\ vars' = vars
                ELSE /\ markedForRemoval' = markedForRemoval
                     /\ vars' = default.w.vars
                     /\ out' = IF default.ok THEN default.w.out
                               ELSE Append(default.w.out, HelpLine(cmd))
                     /\ ret' = TRUE]_allvars

\* C15 witness: a modeshift command has processed NONE on a child variable
\* that an earlier assignment through it had changed
C15_Witness ==
    /\ IsProcess(last) /\ Matched(last.arg) /\ IsRemoval(cmds[last.cmd], last.arg)
    /\ markedForRemoval = {0} /\ 0 \in DOMAIN overrides
    /\ vars[overrides[0]].value = 2 /\ vars[ParentId].value = 1
    /\ out = <<Line("Modeshift has been removed", "B,MIN_SENS", <<>>)>> /\ ret = TRUE

\* the map a derived command's child variable was taken from
TaskMap(cmd) ==
    CASE cmd.task.fn = "ProcessModeshiftRemoval" -> overrides
      [] cmd.task.fn = "ProcessChordRemoval" -> chordBindings
      [] cmd.task.fn = "ProcessSimPressRemoval" -> simPressBindings

\* C16 as stated: every live derived command is bound to a child variable
\* that is still the entry of its parent's map for the command's chord, so
\* no teardown has removed a slot that a live derived command references.
C16_ChildOutlivesCommand ==
    \A c \in (DOMAIN cmds) \ {BaseCmd} :
        /\ cmds[c].var \in DOMAIN vars
        /\ cmds[c].task.btn \in DOMAIN TaskMap(cmds[c])
        /\ TaskMap(cmds[c])[cmds[c].task.btn] = cmds[c].var

\* the listeners that command c has on variable var
ListenersOf(var, c) == {i \in 1..Len(var.listeners) : var.listeners[i].cmd = c}

\* C17 as stated: a live command has exactly one display listener, the one
\* with its _listenerId, on the variable it is bound to; a variable has as
\* many listeners as live commands bound to it, none of a destroyed command;
\* and the destructor removes the command's listener from that variable.
C17_ListenerLifecycle ==
    [][/\ \A c \in DOMAIN cmds' :
            /\ cmds'[c].var \in DOMAIN vars'
            /\ Cardinality(ListenersOf(vars'[cmds'[c].var], c)) = 1
            /\ \A i \in ListenersOf(vars'[cmds'[c].var], c) :
                  vars'[cmds'[c].var].listeners[i].id = cmds'[c].listenerId
       /\ \A id \in DOMAIN vars' :
            /\ Len(vars'[id].listeners) = Cardinality({c \in DOMAIN cmds' : cmds'[c].var = id})
            /\ \A i \in 1..Len(vars'[id].listeners) : vars'[id].listeners[i].cmd \in DOMAIN cmds'
       /\ last'.op = "destroy"
            => /\ cmds[last'.cmd].var \in DOMAIN vars
               /\ cmds[last'.cmd].listenerId \in ListenerIds(vars[cmds[last'.cmd].var])
               /\ cmds[last'.cmd].var \in DOMAIN vars'
                     => ListenerIds(vars'[cmds[last'.cmd].var])
                          = ListenerIds(vars[cmds[last'.cmd].var]) \ {cmds[last'.cmd].listenerId}]_allvars

\* C18 as stated: the help text is printed only for the HELP token or for a
\* matching line whose non-empty capture does not convert to T, and never
\* when the capture converts.
C18_Original ==
    [][IsProcess(last') =>
         LET cmd == cmds[last'.cmd]
         IN  /\ HelpLines(out') > 0
                  => \/ last'.arg = HELP
                     \/ Matched(last'.arg) /\ Unconvertible(cmd, last'.arg)
             /\ (Matched(last'.arg) /\ Convertible(cmd, last'.arg))
                  => HelpLines(out') = 0]_allvars

\* C18 amended: the help text is printed, once, only for the HELP token, for
\* a matching line whose non-empty capture does not convert to T, or for a
\* capture that converts to a value other than the stored one when the
\* variable still holds the value it had; a capture that converts to the
\* stored value, or whose write changes the stored value, prints no help.
C18_HelpOnlyOnFailure ==
    [][IsProcess(last') =>
         LET cmd == cmds[last'.cmd]
             rejected == /\ Requested(cmd, last'.arg) # vars[cmd.var].value
                         /\ vars'[cmd.var].value = vars[cmd.var].value
         IN  /\ HelpLines(out') <= 1
             /\ HelpLines(out') > 0
                  => \/ last'.arg = HELP
                     \/ Matched(last'.arg) /\ Unconvertible(cmd, last'.arg)
                     \/ Matched(last'.arg) /\ Convertible(cmd, last'.arg) /\ rejected
             /\ (Matched(last'.arg) /\ Convertible(cmd, last'.arg) /\ ~rejected)
                  => HelpLines(out') = 0]_allvars

\* C18 witness: a derived command whose capture converted printed the help
\* text, because the child variable kept the value it had
C18_Witness ==
    /\ IsProcess(last) /\ last.cmd # BaseCmd /\ Matched(last.arg)
    /\ cmds[last.cmd].T = "int" /\ Convertible(cmds[last.cmd], last.arg)
    /\ Requested(cmds[last.cmd], last.arg) > SensMax
    /\ vars[cmds[last.cmd].var].value = SensMax
    /\ out[Len(out)] = HelpLine(cmds[last.cmd])

\* the maps of a parent, by name
Slots == [overrides |-> overrides, chordBindings |-> chordBindings,
          simPressBindings |-> simPressBindings]
SlotsAfter == [overrides |-> overrides', chordBindings |-> chordBindings',
               simPressBindings |-> simPressBindings']
\* the map a pair of variable kind and operator takes its child from
SlotMap(class, op) ==
    IF op = "+" THEN "simPressBindings"
    ELSE IF class = "JSMSetting" THEN "overrides" ELSE "chordBindings"

\* C19: GetModifiedCmd prints nothing and changes no value: the parent, every
\* child that existed and the marks are as before, every slot that existed
\* holds the variable it held, and the one slot that may be new is the slot
\* of the requested chord in the map of the operator, which exists after a
\* command was made.
C19_DeriveChangesNoValue ==
    [][IsDerive(last') =>
         LET class == vars[cmds[last'.cmd].var].class
             btn == EnumCast(last'.chord)
         IN  /\ out' = <<>>
             /\ markedForRemoval' = markedForRemoval
             /\ \A id \in DOMAIN vars :
                   /\ id \in DOMAIN vars'
                   /\ vars'[id].value = vars[id].value
                   /\ vars'[id].filter = vars[id].filter
             /\ \A m \in DOMAIN Slots :
                   /\ \A b \in DOMAIN Slots[m] : b \in DOMAIN SlotsAfter[m] /\ SlotsAfter[m][b] = Slots[m][b]
                   /\ (DOMAIN SlotsAfter[m]) \ (DOMAIN Slots[m])
                        \subseteq (IF ret' /\ m = SlotMap(class, last'.mod) THEN {btn} ELSE {})
             /\ (DOMAIN vars') \ (DOMAIN vars)
                   \subseteq {SlotsAfter[m][b] : m \in {SlotMap(class, last'.mod)},
                                                 b \in {btn} \cap DOMAIN SlotsAfter[SlotMap(class, last'.mod)]}
             /\ ret' => btn \in DOMAIN SlotsAfter[SlotMap(class, last'.mod)]]_allvars

\* C19 witness: a second command was derived for a chord whose child holds a
\* value an assignment had given it, different from the parent's
C19_Witness ==
    /\ IsDerive(last) /\ ret = TRUE /\ last.cmd = BaseCmd
    /\ DOMAIN cmds = {BaseCmd, 1, 2}
    /\ 0 \in DOMAIN overrides /\ cmds[1].var = overrides[0] /\ cmds[2].var = overrides[0]
    /\ vars[overrides[0]].value = 2 /\ vars[ParentId].value = 1

Next ==
    \/ \E slot \in {BaseCmd} \cup DerivedSlots, arguments \in Inputs : Process(slot, arguments)
    \/ \E slot \in {BaseCmd} \cup DerivedSlots, op \in Operators, chord \in ChordTokens :
          GetModifiedCmd(slot, op, chord)
    \/ \E slot \in DerivedSlots : Destroy(slot)

Spec == Init /\ [][Next]_allvars
====
